---- MODULE Spec2Model ----
(***************************************************************************)
(* Model of qwfilter/kalman.py: the discrete-time unscented Kalman filter  *)
(* (work context, unscented transform, predictor, corrector, filter loop). *)
(*                                                                         *)
(* Python attributes are dynamic: a record carries the set `has` of the    *)
(* attribute names that have been assigned, and reading an attribute       *)
(* outside `has` raises AttributeError.                                    *)
(*                                                                         *)
(* Numerical values (vectors, matrices, tensors) are not computed: a value *)
(* is the pair [def, of] of the expression that computed it and the        *)
(* version of the context it was computed in.  The names in `def` are the  *)
(* attributes of the context as they were at version `of`; the version     *)
(* work.ver is the list of the calls that have written values into the     *)
(* context.  Two values are equal in the model exactly when the code       *)
(* computed them by the same expression from the same context contents.    *)
(* Time indices and masks are kept as they are.                            *)
(***************************************************************************)
EXTENDS Integers, Sequences, FiniteSets, TLC

VARIABLES
    options,  \* the keyword options the filter was constructed with
    flt,      \* the filter object (self): the transform it selected
    work,     \* the DTKalmanFilterWork context
    calls,    \* history: every predict/correct/..._diff call made so far
    pc,       \* position of filter(): "idle", "correct", "predict", "done", "raised"
              \* ("none" when the constructor raised: there is no filter object)
    fN,       \* filter(): N = len(y)
    fy,       \* filter(): the rows of y read so far (y is read one row per
              \* iteration and never written, so each row is drawn when read)
    fk,       \* filter(): the loop index k
    fx,       \* filter(): the rows of the x and Px arrays filled so far
    run,      \* history: the calls made by the current filter() invocation
    trans,    \* a transform object on its own (SpecUT, SpecScalar)
    twork,    \* the work object of that transform: its sigma points, row by row
    num,      \* a scalar model and its context, with numbers for values
    work2,    \* the context of a second run on the same filter object
    alone,    \* each of two runs as it goes alone: its own filter and context
    mdl,      \* the model of the filter in numbers: f and Q
    k0,       \* history: the time index the context was constructed with
    problem   \* an optimization problem (ceacoest.optim.Problem)

vars == <<options, flt, work, calls, pc, fN, fy, fk, fx, run,
          trans, twork, num, work2, alone, mdl, k0, problem>>

\* The variables of the other specifications, and their value where unused.
Aside == <<trans, twork, num, work2, alone, mdl, k0, problem>>

Unused == <<>>

(* Bounds of the model. *)
MaxVal == 1      \* measurement entries are drawn from 1..MaxVal
MaxN == 3        \* filter() is run over at most MaxN measurements
MaxCalls == 3    \* at most MaxCalls direct calls of the operations
MaxMasked == 2   \* at most MaxMasked calls when the masked entries carry data
MaxDim == 4      \* the transform has 1..MaxDim inputs, and |kappa| <= 2 MaxDim
MaxSteps == 2    \* at most MaxSteps steps of the filter in numbers
MaxTwo == 3      \* at most MaxTwo calls in all by two runs on one filter
MaxK0 == 1       \* the context is constructed with a time index in 0..MaxK0
MaxNd == 4       \* variables are registered while nd is below MaxNd

(* Sizes of the model object of the test module. *)
NX == 5
NY == 2

-----------------------------------------------------------------------------
(* Values and expressions. *)

RECURSIVE Join(_)
Join(args) ==
    IF args = <<>> THEN ""
    ELSE IF Len(args) = 1 THEN args[1]
    ELSE args[1] \o "," \o Join(Tail(args))

Ap(op, args) == op \o "(" \o Join(args) \o ")"

\* A stored value.
V(def, of) == [def |-> def, of |-> of]

NoVal == V("", "")

\* Inside a call a value is handled as a reference: the expression `e` that
\* denotes it in the context version `at` of the call, and the value `v`
\* that an assignment stores.
NoRef == [e |-> "", v |-> NoVal, at |-> ""]

\* Reading attribute f of an object that carries the version.
Rd(w, f) == [e |-> f, v |-> w[f], at |-> w.ver]

\* A literal.
Lit(c) == [e |-> c, v |-> V(c, ""), at |-> ""]

\* The context version of the arguments of an operation: literals carry none.
AtOf(ats) == IF ats = {} THEN "" ELSE CHOOSE a \in ats : TRUE

At(args) == AtOf({args[i].at : i \in DOMAIN args} \ {""})

\* The value denoted by expression e in context version at.
Ref(e, at) == [e |-> e, v |-> V(e, at), at |-> at]

\* The result of applying op to the arguments.
New(op, args) == Ref(Ap(op, [i \in DOMAIN args |-> args[i].e]), At(args))

\* Application of a closure <<name, bound arguments...>> to one more argument.
Call(fn, arg) ==
    New(fn[1], [i \in 1..(Len(fn) - 1) |-> Lit(fn[i + 1])] \o <<arg>>)

-----------------------------------------------------------------------------
(* Measurement vectors: a masked array of NY entries. *)

Meas == [data : [1..NY -> 1..MaxVal], mask : [1..NY -> BOOLEAN]]

NoY == [data |-> <<>>, mask |-> <<>>]

\* ma.getmaskarray(y)
getmaskarray(y) == y.mask

\* np.all(mask), np.any(active)
all(m) == \A i \in DOMAIN m : m[i]
any(m) == \E i \in DOMAIN m : m[i]

\* A boolean index array, spelled for use inside an expression.
RECURSIVE IndexStr(_)
IndexStr(b) ==
    IF b = <<>> THEN ""
    ELSE (IF b[1] THEN "1" ELSE "0") \o IndexStr(Tail(b))

\* ma.compressed(y): the data of the entries that are not masked, in order.
RECURSIVE compressedFrom(_, _, _)
compressedFrom(data, mask, i) ==
    IF i > Len(mask) THEN <<>>
    ELSE (IF mask[i] THEN <<>> ELSE <<ToString(data[i])>>)
         \o compressedFrom(data, mask, i + 1)

\* A faulty line 438, to test C14: the data of every entry (ma.getdata),
\* the masked ones included.
compressed_all(y) ==
    Lit("[" \o Join([i \in DOMAIN y.data |-> ToString(y.data[i])]) \o "]")

compressed(y) == Lit("[" \o Join(compressedFrom(y.data, y.mask, 1)) \o "]")

-----------------------------------------------------------------------------
(* Numbers.  A rational is [n, d] in lowest terms with d > 0; a natural    *)
(* number of any size is the sequence of its bits, least significant       *)
(* first; a double is [s, m, e], the number s * m * 2^e with the sign s    *)
(* (1 or -1) and the 53-bit mantissa m.                                    *)

Abs(a) == IF a < 0 THEN -a ELSE a

RECURSIVE gcd(_, _)
gcd(a, b) == IF b = 0 THEN a ELSE gcd(b, a % b)

Rat(n, d) ==
    [n |-> (IF d < 0 THEN -1 ELSE 1) * (Abs(n) \div gcd(Abs(n), Abs(d)))
           * (IF n < 0 THEN -1 ELSE 1),
     d |-> Abs(d) \div gcd(Abs(n), Abs(d))]

RInt(i) == Rat(i, 1)
Zero == RInt(0)
RAdd(a, b) == Rat(a.n * b.d + b.n * a.d, a.d * b.d)
RSub(a, b) == RAdd(a, Rat(-b.n, b.d))
RMul(a, b) == Rat(a.n * b.n, a.d * b.d)
RDiv(a, b) == Rat(a.n * b.d, a.d * b.n)
RLess(a, b) == a.n * b.d < b.n * a.d
RAbs(a) == Rat(Abs(a.n), a.d)

RECURSIVE BAdd(_, _, _)
BAdd(a, b, c) ==
    IF a = <<>> /\ b = <<>> THEN (IF c = 1 THEN <<1>> ELSE <<>>)
    ELSE <<((IF a = <<>> THEN 0 ELSE a[1]) + (IF b = <<>> THEN 0 ELSE b[1]) + c) % 2>>
         \o BAdd(IF a = <<>> THEN <<>> ELSE Tail(a),
                 IF b = <<>> THEN <<>> ELSE Tail(b),
                 ((IF a = <<>> THEN 0 ELSE a[1]) + (IF b = <<>> THEN 0 ELSE b[1]) + c) \div 2)

\* a * 2^k
BShift(a, k) == IF a = <<>> THEN <<>> ELSE [i \in 1..k |-> 0] \o a

RECURSIVE BTimes(_, _)
BTimes(a, n) ==
    IF n = 0 THEN <<>>
    ELSE BAdd(IF n % 2 = 1 THEN a ELSE <<>>, BShift(BTimes(a, n \div 2), 1), 0)

\* a <= b
RECURSIVE BLeqFrom(_, _, _)
BLeqFrom(a, b, i) ==
    IF i = 0 THEN TRUE
    ELSE IF a[i] # b[i] THEN a[i] < b[i]
    ELSE BLeqFrom(a, b, i - 1)

BLeq(a, b) ==
    IF Len(a) # Len(b) THEN Len(a) < Len(b) ELSE BLeqFrom(a, b, Len(a))

\* Without the zero bits at the top.
RECURSIVE BNorm(_)
BNorm(a) ==
    IF a = <<>> \/ a[Len(a)] = 1 THEN a ELSE BNorm(SubSeq(a, 1, Len(a) - 1))

\* a - b, for b <= a
RECURSIVE BSubFrom(_, _, _)
BSubFrom(a, b, c) ==
    IF a = <<>> THEN <<>>
    ELSE <<(a[1] - (IF b = <<>> THEN 0 ELSE b[1]) - c + 2) % 2>>
         \o BSubFrom(Tail(a), IF b = <<>> THEN <<>> ELSE Tail(b),
                     IF a[1] - (IF b = <<>> THEN 0 ELSE b[1]) - c < 0 THEN 1 ELSE 0)

BSub(a, b) == BNorm(BSubFrom(a, b, 0))

\* |a - b|
BDist(a, b) == IF BLeq(a, b) THEN BSub(b, a) ELSE BSub(a, b)

\* The quotient p / q scaled into [1, 2): <<p', q', t>> with p / q =
\* (p' / q') * 2^t and q' <= p' < 2 q'.
RECURSIVE Scaled(_, _, _)
Scaled(p, q, t) ==
    IF p < q THEN Scaled(2 * p, q, t - 1)
    ELSE IF p >= 2 * q THEN Scaled(p, 2 * q, t + 1)
    ELSE <<p, q, t>>

\* The next n bits of r / q (r < 2 q) appended to bits, most significant
\* first, and twice the remainder they leave.
RECURSIVE Quot(_, _, _, _)
Quot(r, q, n, bits) ==
    IF n = 0 THEN [bits |-> bits, r |-> r]
    ELSE Quot(2 * (IF r >= q THEN r - q ELSE r), q, n - 1,
              Append(bits, IF r >= q THEN 1 ELSE 0))

Reverse(s) == [i \in 1..Len(s) |-> s[Len(s) + 1 - i]]

\* Rounding to nearest, ties to even: the mantissa of 53 bits that division
\* gave, the remainder r it left (compared with q: half a unit of the last
\* place), and the exponent.
Rounded(s, bits, r, q, e) ==
    IF r < q \/ (r = q /\ bits[53] = 0)
    THEN [s |-> s, m |-> Reverse(bits), e |-> e]
    ELSE IF Len(BAdd(Reverse(bits), <<1>>, 0)) = 54
    THEN [s |-> s, m |-> Tail(BAdd(Reverse(bits), <<1>>, 0)), e |-> e + 1]
    ELSE [s |-> s, m |-> BAdd(Reverse(bits), <<1>>, 0), e |-> e]

DoubleOf(s, sc) ==
    Rounded(s, Quot(sc[1], sc[2], 53, <<>>).bits, Quot(sc[1], sc[2], 53, <<>>).r, sc[2], sc[3] - 52)

\* The double nearest to the rational a # 0: what the division of two
\* numbers that are doubles themselves returns.
double(a) == DoubleOf(IF a.n < 0 THEN -1 ELSE 1, Scaled(Abs(a.n), a.d, 0))

-----------------------------------------------------------------------------
(* Unscented transform. *)

UTFields == {"i", "Pi", "S", "i_sigma", "i_dev", "o_sigma", "o_dev", "o", "Po",
             "di_dev_dq", "di_sigma_dq", "do_dev_dq"}

\* A transform work object as stored on the context: values.
NoUT == [has |-> {}, f |-> [n \in UTFields |-> NoVal]]

\* UnscentedTransformWork(i, Pi), inside the call that creates it.
UnscentedTransformWork(i, Pi) ==
    [has |-> {"i", "Pi"},
     f |-> [n \in UTFields |-> IF n = "i" THEN i ELSE IF n = "Pi" THEN Pi ELSE NoRef]]

\* The object as assigned to an attribute, and as read back from attribute
\* `name` of the context w.
Stored(ut) == [has |-> ut.has, f |-> [n \in UTFields |-> ut.f[n].v]]

Load(w, name) ==
    [has |-> w[name].has,
     f |-> [n \in UTFields |->
              [e |-> name \o "." \o n, v |-> w[name].f[n], at |-> w.ver]]]

\* Assignment of attributes of a transform work object.
Set(ut, names, vals) ==
    [has |-> ut.has \cup {names[j] : j \in DOMAIN names},
     f |-> [n \in UTFields |->
              IF \E j \in DOMAIN names : names[j] = n
              THEN vals[CHOOSE j \in DOMAIN names : names[j] = n]
              ELSE ut.f[n]]]

\* nsigma
nsigma(self) == 2 * NX + (IF self.kappa # 0 THEN 1 ELSE 0)

\* Whether the square root method of the transform class raises
\* (scipy.linalg.cholesky raises LinAlgError on a matrix that is not positive
\* definite; the model does not decide which values are positive definite,
\* `ok` tells).
sqrtRaises(self, ok) == self.sqrt = "cholesky" /\ ~ok

\* sqrt(work, Q): the factor, stored as work.S and returned.
sqrt(self, Q) == New(self.sqrt, <<Q>>)

\* sigma_points(work)
sigma_points(self, ut, ok) ==
    IF sqrtRaises(self, ok) THEN [ut |-> ut, out |-> "LinAlgError"]
    ELSE
    LET S == sqrt(self, New("mul", <<Lit(ToString(NX + self.kappa)), ut.f.Pi>>))
        i_dev == New("dev", <<Lit(ToString(nsigma(self))), S>>)
        i_sigma == New("add", <<i_dev, ut.f.i>>)
    IN [ut |-> Set(ut, <<"S", "i_sigma", "i_dev">>, <<S, i_sigma, i_dev>>),
        out |-> "ok"]

\* transform(work, f), lines 204-213: sp is what sigma_points left.
transform_out(sp, f) ==
    IF sp.out # "ok" THEN [ut |-> sp.ut, out |-> sp.out, o |-> NoRef, Po |-> NoRef]
    ELSE
    LET o_sigma == Call(f, sp.ut.f.i_sigma)
        o == New("wsum", <<o_sigma>>)
        o_dev == New("sub", <<o_sigma, o>>)
        Po == New("wouter", <<o_dev, o_dev>>)
    IN [ut |-> Set(sp.ut, <<"o_sigma", "o_dev", "o", "Po">>, <<o_sigma, o_dev, o, Po>>),
        out |-> "ok", o |-> o, Po |-> Po]

\* transform(work, f)
transform(self, ut, f, ok) == transform_out(sigma_points(self, ut, ok), f)

\* crosscov(work)
crosscov(self, ut) == New("wouter", <<ut.f.i_dev, ut.f.o_dev>>)

\* sqrt_diff(work, dQ_dq): only CholeskyUnscentedTransform defines it.
has_sqrt_diff(self) == self.sqrt = "cholesky"

\* DifferentiableCholesky.diff(work, dQ_dq), from the factor in work.S
sqrt_diff(ut, dQ_dq) == New("cholesky_diff", <<ut.f.S, dQ_dq>>)

\* sigma_points_diff(work, di_dq, dPi_dq)
sigma_points_diff(self, ut, di_dq, dPi_dq) ==
    IF ~has_sqrt_diff(self) THEN [ut |-> ut, out |-> "AttributeError", val |-> NoRef]
    ELSE
    LET dS_dq == sqrt_diff(ut, New("mul", <<Lit(ToString(NX + self.kappa)), dPi_dq>>))
        di_dev_dq == New("dev", <<Lit(ToString(nsigma(self))), dS_dq>>)
        di_sigma_dq == New("add", <<di_dev_dq, di_dq>>)
    IN [ut |-> Set(ut, <<"di_dev_dq", "di_sigma_dq">>, <<di_dev_dq, di_sigma_dq>>),
        out |-> "ok", val |-> di_sigma_dq]

\* transform_diff(work, df_dq, df_dx, di_dq, dPi_dq), lines 220-229: sd is
\* what sigma_points_diff left and returned.
transform_diff_out(sd, df_dq, df_dx) ==
    IF sd.out # "ok"
    THEN [ut |-> sd.ut, out |-> sd.out, do_dq |-> NoRef, dPo_dq |-> NoRef]
    ELSE IF "o_dev" \notin sd.ut.has
    THEN [ut |-> sd.ut, out |-> "AttributeError", do_dq |-> NoRef, dPo_dq |-> NoRef]
    ELSE
    LET Do_sigma_Dq == New("add", <<Call(df_dq, sd.ut.f.i_sigma),
                                    New("dot", <<Call(df_dx, sd.ut.f.i_sigma), sd.val>>)>>)
        do_dq == New("wsum", <<Do_sigma_Dq>>)
        do_dev_dq == New("sub", <<Do_sigma_Dq, do_dq>>)
    IN [ut |-> Set(sd.ut, <<"do_dev_dq">>, <<do_dev_dq>>),
        out |-> "ok",
        do_dq |-> do_dq,
        dPo_dq |-> New("sym", <<New("wouter", <<do_dev_dq, sd.ut.f.o_dev>>)>>)]

\* transform_diff(work, df_dq, df_dx, di_dq, dPi_dq)
transform_diff(self, ut, df_dq, df_dx, di_dq, dPi_dq) ==
    IF "i_sigma" \notin ut.has
    THEN [ut |-> ut, out |-> "AttributeError", do_dq |-> NoRef, dPo_dq |-> NoRef]
    ELSE transform_diff_out(sigma_points_diff(self, ut, di_dq, dPi_dq), df_dq, df_dx)

\* crosscov_diff(work)
crosscov_diff(self, ut) ==
    New("add", <<New("wouter", <<ut.f.di_dev_dq, ut.f.o_dev>>),
                 New("wouter", <<ut.f.i_dev, ut.f.do_dev_dq>>)>>)

-----------------------------------------------------------------------------
(* The work context. *)

\* DTKalmanFilterWork(x, Px, k=0): the constructor assigns x, Px and k only.
DTKalmanFilterWork(x, Px, k) ==
    [has |-> {"x", "Px", "k"}, ver |-> "0",
     x |-> V(x, ""), Px |-> V(Px, ""), k |-> k,
     active |-> <<>>, pred_ut |-> NoUT, corr_ut |-> NoUT,
     py_chol |-> [has |-> {}, S |-> NoVal],
     prev_x |-> NoVal, prev_Px |-> NoVal, e |-> NoVal, Pxh |-> NoVal,
     PyI |-> NoVal, PyC |-> NoVal, PyCI |-> NoVal, K |-> NoVal,
     dx_dq |-> NoVal, dPx_dq |-> NoVal,
     prev_dx_dq |-> NoVal, prev_dPx_dq |-> NoVal,
     L |-> NoVal, PyCD |-> NoVal, dL_dq |-> NoVal,
     de_dq |-> NoVal, dPyI_dq |-> NoVal]

\* The context after a call that wrote values into it.
Bump(w, label) == [w EXCEPT !.ver = @ \o ";" \o label]

\* A faulty return, to test C21: every operation advances the time index of
\* the context it returns from.
Result_advancing(w, out, val) ==
    [work |-> [w EXCEPT !.k = @ + 1], out |-> out, val |-> val]

\* The result of one call: the context after it, how it ended ("ok" or the
\* exception raised) and the value returned (<<>> for None or an exception).
Result(w, out, val) == [work |-> w, out |-> out, val |-> val]

-----------------------------------------------------------------------------
(* DTUnscentedPredictor. *)

\* A faulty line 356, to test C4: Q evaluated after the update of lines
\* 360-362, at the new time index and the new mean.
predict_Q_late(w, t) == New("Q", <<Lit(ToString(w.k + 1)), t.o>>)

\* Line 356: Q = self.model.Q(work.k, work.x)
predict_Q(w, t) == New("Q", <<Lit(ToString(w.k)), Rd(w, "x")>>)

\* predict(work), lines 356-363, with line 354's object as transform left it: t is what transform left and returned.
predict_update(w, t) ==
    LET label == Ap("predict", <<ToString(w.k)>>)
        w1 == [w EXCEPT !.has = @ \cup {"pred_ut"}, !.pred_ut = Stored(t.ut)]
    IN
    IF t.out # "ok" THEN Result(Bump(w1, label \o "!"), t.out, <<>>)
    ELSE
    LET Q == predict_Q(w1, t)
        w2 == [w1 EXCEPT !.has = @ \cup {"prev_x", "prev_Px"},
                         !.prev_x = w1.x,
                         !.prev_Px = w1.Px,
                         !.k = w1.k + 1,
                         !.x = t.o.v,
                         !.Px = New("add", <<t.Po, Q>>).v]
    IN Result(Bump(w2, label), "ok", <<w2.x, w2.Px>>)

\* predict(work); `ok` tells whether the square root of Px succeeds.
predict(self, w, ok) ==
    predict_update(w, transform(self, UnscentedTransformWork(Rd(w, "x"), Rd(w, "Px")),
                                <<"f", ToString(w.k)>>, ok))

\* prediction_diff(work), lines 374-384: td is what transform_diff left and
\* returned.
prediction_diff_update(w, td) ==
    LET k == w.k - 1
        x == Rd(w, "prev_x")
        w1 == [w EXCEPT !.pred_ut = Stored(td.ut)]
    IN
    IF td.out # "ok"
    THEN Result(IF w1 = w THEN w ELSE Bump(w1, "prediction_diff!"), td.out, <<>>)
    ELSE
    LET dQ_dq == New("dQ_dq", <<Lit(ToString(k)), x>>)
        dQ_dx == New("dQ_dx", <<Lit(ToString(k)), x>>)
        DQ_Dq == New("add", <<dQ_dq, New("dot", <<Rd(w1, "dx_dq"), dQ_dx>>)>>)
        w2 == [w1 EXCEPT !.has = @ \cup {"prev_dx_dq", "prev_dPx_dq"},
                         !.prev_dx_dq = w1.dx_dq,
                         !.prev_dPx_dq = w1.dPx_dq,
                         !.dx_dq = New("add", <<Rd(w1, "dx_dq"), td.do_dq>>).v,
                         !.dPx_dq = New("add", <<Rd(w1, "dPx_dq"),
                                                 New("add", <<td.dPo_dq, DQ_Dq>>)>>).v]
    IN Result(Bump(w2, Ap("prediction_diff", <<ToString(k)>>)), "ok", <<>>)

\* A faulty prediction_diff, to test C22: line 367 without the `- 1`, the
\* derivatives of f taken at the time index predict has moved to.
prediction_diff_at_k(self, w) ==
    IF "prev_x" \notin w.has THEN Result(w, "AttributeError", <<>>)
    ELSE IF {"pred_ut", "dx_dq", "dPx_dq"} \ w.has # {}
    THEN Result(w, "AttributeError", <<>>)
    ELSE prediction_diff_update(w,
             transform_diff(self, Load(w, "pred_ut"),
                            <<"df_dq", ToString(w.k)>>, <<"df_dx", ToString(w.k)>>,
                            Rd(w, "dx_dq"), Rd(w, "dPx_dq")))

\* prediction_diff(work)
prediction_diff(self, w) ==
    IF "prev_x" \notin w.has THEN Result(w, "AttributeError", <<>>)
    ELSE IF {"pred_ut", "dx_dq", "dPx_dq"} \ w.has # {}
    THEN Result(w, "AttributeError", <<>>)
    ELSE prediction_diff_update(w,
             transform_diff(self, Load(w, "pred_ut"),
                            <<"df_dq", ToString(w.k - 1)>>, <<"df_dx", ToString(w.k - 1)>>,
                            Rd(w, "dx_dq"), Rd(w, "dPx_dq")))

-----------------------------------------------------------------------------
(* DTUnscentedCorrector. *)

\* correct(work, y), lines 438-472: w0 is the context with the active mask
\* assigned, t is what transform left and returned.
correct_update(self, w0, y, t, pyok) ==
    LET yc == compressed(y)
        R == New("R", <<Lit(IndexStr(w0.active))>>)
        label == Ap("correct", <<ToString(w0.k), IndexStr(w0.active), yc.e>>)
        w1 == [w0 EXCEPT !.has = @ \cup {"corr_ut"}, !.corr_ut = Stored(t.ut)]
    IN
    IF t.out # "ok" THEN Result(Bump(w1, label \o "!ut"), t.out, <<>>)
    ELSE
    LET Pxh == crosscov(self, t.ut)
        w2 == [w1 EXCEPT !.has = @ \cup {"py_chol"},
                         !.py_chol = [has |-> {}, S |-> NoVal]]
        Py == New("add", <<t.Po, R>>)
    IN
    IF ~pyok THEN Result(Bump(w2, label \o "!py"), "LinAlgError", <<>>)
    ELSE
    LET PyC == New("cholesky", <<Py>>)
        w3 == [w2 EXCEPT !.py_chol = [has |-> {"S"}, S |-> PyC.v]]
        PyCI == New("inv", <<PyC>>)
        PyI == New("mul", <<PyCI, New("T", <<PyCI>>)>>)
        e == New("sub", <<yc, t.o>>)
        K == New("mul", <<Pxh, PyI>>)
        x_corr == New("add", <<Rd(w3, "x"), New("mul", <<K, e>>)>>)
        Px_corr == New("sub", <<Rd(w3, "Px"), New("mul", <<K, Py, New("T", <<K>>)>>)>>)
        w4 == [w3 EXCEPT !.has = @ \cup {"prev_x", "prev_Px", "e", "Pxh",
                                         "PyI", "PyC", "PyCI", "K"},
                         !.prev_x = w3.x,
                         !.prev_Px = w3.Px,
                         !.e = e.v,
                         !.x = x_corr.v,
                         !.Px = Px_corr.v,
                         !.Pxh = Pxh.v,
                         !.PyI = PyI.v,
                         !.PyC = PyC.v,
                         !.PyCI = PyCI.v,
                         !.K = K.v]
    IN Result(Bump(w4, label), "ok", <<x_corr.v, Px_corr.v>>)

\* The context after line 433.
correct_active(w, y) ==
    [w EXCEPT !.has = @ \cup {"active"},
              !.active = [i \in DOMAIN getmaskarray(y) |-> ~getmaskarray(y)[i]]]

\* A faulty correct, to test C2: without the early return of lines 434-435.
correct_no_return(self, w, y, utok, pyok) ==
    correct_update(self, correct_active(w, y), y,
                   transform(self, UnscentedTransformWork(Rd(w, "x"), Rd(w, "Px")),
                             <<"h", ToString(w.k), IndexStr(correct_active(w, y).active)>>,
                             utok),
                   pyok)

\* correct(work, y); `utok` and `pyok` tell whether the square root of Px
\* and the Cholesky factorization of Py succeed.
correct(self, w, y, utok, pyok) ==
    IF all(getmaskarray(y))
    THEN Result(correct_active(w, y), "ok", <<w.x, w.Px>>)
    ELSE correct_update(self, correct_active(w, y), y,
                        transform(self, UnscentedTransformWork(Rd(w, "x"), Rd(w, "Px")),
                                  <<"h", ToString(w.k), IndexStr(correct_active(w, y).active)>>,
                                  utok),
                        pyok)

\* correction_diff(work), lines 487-503: td is what transform_diff left and
\* returned.  Line 492 reads the name dPh_dq, which is bound nowhere (the
\* transform's result is bound to DPh_Dq): every call that gets past
\* transform_diff raises NameError there, before lines 497-503.
correction_diff_update(w, td) ==
    LET w1 == [w EXCEPT !.corr_ut = Stored(td.ut)] IN
    IF td.out # "ok"
    THEN Result(IF w1 = w THEN w ELSE Bump(w1, "correction_diff!"), td.out, <<>>)
    ELSE Result(Bump(w1, "correction_diff!"), "NameError", <<>>)

\* correction_diff(work)
correction_diff(self, w) ==
    IF "active" \notin w.has THEN Result(w, "AttributeError", <<>>)
    ELSE IF ~any(w.active) THEN Result(w, "ok", <<>>)
    ELSE IF {"corr_ut", "dx_dq", "dPx_dq"} \ w.has # {}
    THEN Result(w, "AttributeError", <<>>)
    ELSE correction_diff_update(w,
             transform_diff(self, Load(w, "corr_ut"),
                            <<"dh_dq", ToString(w.k), IndexStr(w.active)>>,
                            <<"dh_dx", ToString(w.k), IndexStr(w.active)>>,
                            Rd(w, "dx_dq"), Rd(w, "dPx_dq")))

\* update_likelihood(work), lines 510-512
update_likelihood_update(w) ==
    IF "PyC" \notin w.has THEN Result(w, "AttributeError", <<>>)
    ELSE
    LET PyCD == New("diag", <<Rd(w, "PyC")>>)
        w1 == [w EXCEPT !.has = @ \cup {"PyCD"}, !.PyCD = PyCD.v]
    IN
    IF {"L", "e", "PyI"} \ w1.has # {}
    THEN Result(Bump(w1, "update_likelihood!"), "AttributeError", <<>>)
    ELSE
    LET L1 == New("sub", <<Rd(w1, "L"),
                           New("mul", <<Lit("0.5"),
                                        New("quad", <<Rd(w1, "e"), Rd(w1, "PyI"),
                                                      Rd(w1, "e")>>)>>)>>)
        L2 == New("sub", <<L1, New("sum", <<New("log", <<PyCD>>)>>)>>)
    IN Result(Bump([w1 EXCEPT !.L = L2.v], "update_likelihood"), "ok", <<>>)

\* A faulty update_likelihood, to test C3: without the test of lines 507-508.
update_likelihood_no_return(self, w) == update_likelihood_update(w)

\* update_likelihood(work)
update_likelihood(self, w) ==
    IF "active" \notin w.has THEN Result(w, "AttributeError", <<>>)
    ELSE IF ~any(w.active) THEN Result(w, "ok", <<>>)
    ELSE update_likelihood_update(w)

\* likelihood_diff(work).  Line 526 calls DifferentiableCholesky.diff with
\* one argument, where diff(cls, work, dQ_dq) takes two: TypeError, before
\* the assignments to self.dL_dq of lines 528-531.
likelihood_diff(self, w) ==
    IF "active" \notin w.has THEN Result(w, "AttributeError", <<>>)
    ELSE IF ~any(w.active) THEN Result(w, "ok", <<>>)
    ELSE IF {"e", "PyI", "de_dq", "dPyI_dq", "py_chol"} \ w.has # {}
    THEN Result(w, "AttributeError", <<>>)
    ELSE Result(w, "TypeError", <<>>)

-----------------------------------------------------------------------------
(* DTKalmanFilterBase.filter: one loop iteration is correct, then predict  *)
(* unless it is the last.                                                  *)

\* The record of one call: the operation, how it ended, the measurement
\* given to it (NoY if none) and the value returned.
Made(op, r, y) == [op |-> op, out |-> r.out, y |-> y, val |-> r.val]

\* A faulty line 86, to test C23: for k in range(N - 1).
filter_loop_short(k, N) == IF k < N - 1 THEN "correct" ELSE "done"

\* Line 86, for k in range(N): where the loop goes for index k.
filter_loop(k, N) == IF k < N THEN "correct" ELSE "done"

\* Line 87: the calls made for row k.
filter_correct(r, y) == <<Made("correct", r, y)>>

\* A faulty line 88, to test C1: predict after every correct.
filter_predicts_always(k, N) == k < N

\* Line 88: whether predict follows the correct of iteration k.
filter_predicts(k, N) == k < N - 1

\* Line 89: the calls made after the correct of row k.
filter_predict(r) == <<Made("predict", r, NoY)>>

-----------------------------------------------------------------------------
(* The state machine. *)

\* dict.get(key, default)
get(d, key, default) == IF key \in DOMAIN d THEN d[key] ELSE default

\* The options a filter is constructed with, a dict.  Every keyword is
\* accepted (**options); sqrt and kappa are read, calculate_gradients is the
\* keyword the example scripts pass to ask for derivatives.  The options
\* either give sqrt and kappa or leave both to their defaults; "qr" stands
\* for any value of sqrt that is not a transform, and -NX is the kappa
\* for which ni + kappa = 0.
Options ==
    [sqrt : {"cholesky", "svd", "qr"}, kappa : {-NX, 0, 1},
     calculate_gradients : BOOLEAN]
    \cup [calculate_gradients : BOOLEAN]

\* A faulty choose_ut_transform_class, to test C13: a value of sqrt that is
\* not 'svd' selects the default class.
choose_ut_transform_class_default(opts) ==
    IF get(opts, "sqrt", "cholesky") = "svd" THEN "svd" ELSE "cholesky"

\* choose_ut_transform_class(options): the class chosen, or the ValueError
\* of line 332.
choose_ut_transform_class(opts) ==
    IF get(opts, "sqrt", "cholesky") = "cholesky" THEN "cholesky"
    ELSE IF get(opts, "sqrt", "cholesky") = "svd" THEN "svd"
    ELSE "ValueError"

\* UnscentedTransformBase.__init__(ni, **options), lines 149-154: kappa, and
\* the assertion on it.
UnscentedTransformBase(ni, opts) ==
    [kappa |-> get(opts, "kappa", 0),
     raised |-> IF ni + get(opts, "kappa", 0) # 0 THEN "" ELSE "AssertionError"]

\* DTUnscentedKalmanFilter(model, **options): the constructors of the
\* corrector and of the predictor (in that order, by the method resolution
\* order) each choose the transform class and construct the transform from
\* the options; with no corr_ut_ or pred_ut_ option given they get one
\* class and one kappa.  The object keeps the model and the transforms,
\* nothing else; `raised` is the exception that ended the constructor ("" if
\* none did), in which case there is no object.
DTUnscentedKalmanFilter(opts) ==
    IF choose_ut_transform_class(opts) = "ValueError"
    THEN [sqrt |-> "", kappa |-> 0, raised |-> "ValueError"]
    ELSE IF UnscentedTransformBase(NX, opts).raised # ""
    THEN [sqrt |-> "", kappa |-> 0, raised |-> UnscentedTransformBase(NX, opts).raised]
    ELSE [sqrt |-> choose_ut_transform_class(opts),
          kappa |-> UnscentedTransformBase(NX, opts).kappa,
          raised |-> ""]

\* The failures of a factorization that a call can meet.
Failures == {"none", "sqrt", "cholesky"}

Init ==
    /\ options \in Options
    /\ flt = DTUnscentedKalmanFilter(options)
    /\ k0 \in 0..MaxK0
    /\ work = DTKalmanFilterWork("x0", "Px0", k0)
    /\ calls = <<>>
    /\ pc = IF flt.raised = "" THEN "idle" ELSE "none"
    /\ fN = 0
    /\ fy = <<>>
    /\ fk = 0
    /\ fx = <<>>
    /\ run = <<>>
    /\ trans = Unused
    /\ twork = Unused
    /\ num = Unused
    /\ work2 = Unused
    /\ alone = Unused
    /\ mdl = Unused
    /\ problem = Unused

FilterVars == <<pc, fN, fy, fk, fx, run>>

\* The caller's own calls are made outside filter(), at most MaxCalls of them.
CanCall == pc = "idle" /\ Len(calls) < MaxCalls

\* The effect of the caller's call of op that gave result r.
Log(op, r, y) ==
    /\ work' = r.work
    /\ calls' = Append(calls, Made(op, r, y))
    /\ UNCHANGED <<options, flt, FilterVars, Aside>>

\* The context is a plain object: the values the derivative and likelihood
\* operations read and accumulate into are assigned by the caller, before
\* the first call.
AssignGroups == {{"dx_dq", "dPx_dq", "de_dq", "dPyI_dq"}, {"L", "dL_dq"}}

Assigned(w, g) ==
    [w EXCEPT !.has = @ \cup g,
              !.dx_dq = IF "dx_dq" \in g THEN V("dx0", "") ELSE @,
              !.dPx_dq = IF "dPx_dq" \in g THEN V("dPx0", "") ELSE @,
              !.de_dq = IF "de_dq" \in g THEN V("de0", "") ELSE @,
              !.dPyI_dq = IF "dPyI_dq" \in g THEN V("dPyI0", "") ELSE @,
              !.L = IF "L" \in g THEN V("L0", "") ELSE @,
              !.dL_dq = IF "dL_dq" \in g THEN V("dL0", "") ELSE @]

Assign ==
    /\ pc = "idle"
    /\ calls = <<>>
    /\ \E g \in AssignGroups :
        /\ g \cap work.has = {}
        /\ work' = Assigned(work, g)
    /\ UNCHANGED <<options, flt, calls, FilterVars, Aside>>

CallCorrect ==
    /\ CanCall
    /\ \E y \in Meas, fail \in Failures :
        Log("correct", correct(flt, work, y, fail # "sqrt", fail # "cholesky"), y)

CallPredict ==
    /\ CanCall
    /\ \E fail \in Failures \ {"cholesky"} :
        Log("predict", predict(flt, work, fail # "sqrt"), NoY)

CallPredictionDiff ==
    /\ CanCall
    /\ Log("prediction_diff", prediction_diff(flt, work), NoY)

CallCorrectionDiff ==
    /\ CanCall
    /\ Log("correction_diff", correction_diff(flt, work), NoY)

CallUpdateLikelihood ==
    /\ CanCall
    /\ Log("update_likelihood", update_likelihood(flt, work), NoY)

CallLikelihoodDiff ==
    /\ CanCall
    /\ Log("likelihood_diff", likelihood_diff(flt, work), NoY)

\* filter(work, y), lines 81-84 and the loop test for k = 0.
FilterStart ==
    /\ pc = "idle"
    /\ calls = <<>>
    /\ \E N \in 0..MaxN :
        /\ fN' = N
        /\ pc' = filter_loop(0, N)
    /\ fy' = <<>>
    /\ fk' = 0
    /\ fx' = <<>>
    /\ run' = <<>>
    /\ UNCHANGED <<options, flt, work, calls, Aside>>

\* A faulty line 87, to test C12: the exception of correct is caught and the
\* loop goes on with the next call.
FilterCorrected_swallows(r, y) ==
    /\ work' = r.work
    /\ calls' = calls \o filter_correct(r, y)
    /\ run' = run \o filter_correct(r, y)
    /\ fy' = Append(fy, y)
    /\ fx' = Append(fx, IF r.out = "ok" THEN r.val ELSE <<work.x, work.Px>>)
    /\ pc' = IF filter_predicts(fk, fN) THEN "predict" ELSE filter_loop(fk + 1, fN)
    /\ fk' = IF ~filter_predicts(fk, fN) THEN fk + 1 ELSE fk
    /\ UNCHANGED <<options, flt, fN, Aside>>

\* Line 87 with the result r of correct for row y, the test of line 88 and,
\* when predict is skipped, the loop's next k.
FilterCorrected(r, y) ==
    /\ work' = r.work
    /\ calls' = calls \o filter_correct(r, y)
    /\ run' = run \o filter_correct(r, y)
    /\ fy' = Append(fy, y)
    /\ fx' = IF r.out = "ok" THEN Append(fx, r.val) ELSE fx
    /\ pc' = IF r.out # "ok" THEN "raised"
             ELSE IF filter_predicts(fk, fN) THEN "predict"
             ELSE filter_loop(fk + 1, fN)
    /\ fk' = IF r.out = "ok" /\ ~filter_predicts(fk, fN) THEN fk + 1 ELSE fk
    /\ UNCHANGED <<options, flt, fN, Aside>>

FilterCorrect ==
    /\ pc = "correct"
    /\ \E y \in Meas, fail \in Failures :
        FilterCorrected(correct(flt, work, y, fail # "sqrt", fail # "cholesky"), y)

\* Line 89 with the result r of predict, and the loop's next k.
FilterPredicted(r) ==
    /\ work' = r.work
    /\ calls' = calls \o filter_predict(r)
    /\ run' = run \o filter_predict(r)
    /\ pc' = IF r.out # "ok" THEN "raised" ELSE filter_loop(fk + 1, fN)
    /\ fk' = IF r.out # "ok" THEN fk ELSE fk + 1
    /\ UNCHANGED <<options, flt, fN, fy, fx, Aside>>

FilterPredict ==
    /\ pc = "predict"
    /\ \E fail \in Failures \ {"cholesky"} :
        FilterPredicted(predict(flt, work, fail # "sqrt"))

Next ==
    \/ Assign
    \/ CallCorrect
    \/ CallPredict
    \/ CallPredictionDiff
    \/ CallCorrectionDiff
    \/ CallUpdateLikelihood
    \/ CallLikelihoodDiff
    \/ FilterStart
    \/ FilterCorrect
    \/ FilterPredict

Spec == Init /\ [][Next]_vars

-----------------------------------------------------------------------------
(* Measurements whose masked entries carry data: predict and correct calls *)
(* with measurement vectors whose entries, masked or not, hold any of the  *)
(* values 0..MaxVal.                                                       *)

MeasWide == [data : [1..NY -> 0..MaxVal], mask : [1..NY -> BOOLEAN]]

MaskedCorrect ==
    /\ pc = "idle"
    /\ Len(calls) < MaxMasked
    /\ \E y \in MeasWide, fail \in Failures :
        Log("correct", correct(flt, work, y, fail # "sqrt", fail # "cholesky"), y)

MaskedPredict ==
    /\ pc = "idle"
    /\ Len(calls) < MaxMasked
    /\ \E fail \in Failures \ {"cholesky"} :
        Log("predict", predict(flt, work, fail # "sqrt"), NoY)

NextMasked ==
    \/ MaskedCorrect
    \/ MaskedPredict

SpecMasked == Init /\ [][NextMasked]_vars

-----------------------------------------------------------------------------
(* The unscented transform with its arrays: the transform object for any   *)
(* number of inputs ni and any kappa (a rational), its weights as the      *)
(* doubles the constructor stores, and the sigma points row by row.        *)

\* self.nsigma, line 156
nsigma_rows(ni, kappa) == 2 * ni + (IF kappa # Zero THEN 1 ELSE 0)

\* A faulty weight, to test C15: the last weight is left as np.repeat
\* filled it.
weight_repeated(ni, kappa, k) == RDiv(Rat(1, 2), RAdd(RInt(ni), kappa))

\* Lines 159-161: the quotient that entry k of weights is computed as.
weight(ni, kappa, k) ==
    IF kappa # Zero /\ k = nsigma_rows(ni, kappa)
    THEN RDiv(kappa, RAdd(RInt(ni), kappa))
    ELSE RDiv(Rat(1, 2), RAdd(RInt(ni), kappa))

\* self.weights, line 162: the quotients as the division of doubles gives
\* them.
weights(ni, kappa) ==
    [k \in 1..nsigma_rows(ni, kappa) |-> double(weight(ni, kappa, k))]

\* UnscentedTransformBase.__init__(ni, kappa=kappa) of the transform class
\* `class`, for ni + kappa != 0 (the assertion of line 154 passed).
UnscentedTransform(ni, kappa, class) ==
    [ni |-> ni, kappa |-> kappa, sqrt |-> class,
     nsigma |-> nsigma_rows(ni, kappa), weights |-> weights(ni, kappa)]

\* UnscentedTransformWork(i, Pi), with its arrays row by row.
UnscentedTransformWorkRows ==
    [has |-> {"i", "Pi"}, i_dev |-> <<>>, i_sigma |-> <<>>, out |-> ""]

\* A row of the deviations: sign * (row `row` of S), or zero (sign 0).
Dev(sign, row) == [sign |-> sign, row |-> row]

\* A faulty i_dev, to test C16: line 179 without the minus sign.
i_dev_rows_same(self) ==
    [r \in 1..self.nsigma |->
        IF r <= self.ni THEN Dev(1, r)
        ELSE IF r <= 2 * self.ni THEN Dev(1, r - self.ni)
        ELSE Dev(0, 0)]

\* Lines 177-179: i_dev = zeros((nsigma, ni)); i_dev[:ni] = S;
\* i_dev[ni:(2 * ni)] = -S.
i_dev_rows(self) ==
    [r \in 1..self.nsigma |->
        IF r <= self.ni THEN Dev(1, r)
        ELSE IF r <= 2 * self.ni THEN Dev(-1, r - self.ni)
        ELSE Dev(0, 0)]

\* Line 180: i_sigma = i_dev + work.i, the mean added to every row.
i_sigma_rows(self) ==
    [r \in 1..self.nsigma |-> [dev |-> i_dev_rows(self)[r], plus |-> "i"]]

\* sigma_points(work), lines 175-184, row by row.
sigma_points_rows(self, w, ok) ==
    IF sqrtRaises(self, ok) THEN [w EXCEPT !.out = "LinAlgError"]
    ELSE [has |-> w.has \cup {"S", "i_sigma", "i_dev"},
          i_dev |-> i_dev_rows(self), i_sigma |-> i_sigma_rows(self),
          out |-> "ok"]

\* The least exponent of an array of doubles.
MinExp(ws) ==
    CHOOSE e \in {ws[k].e : k \in DOMAIN ws} : \A k \in DOMAIN ws : e <= ws[k].e

\* The sum of the magnitudes of the first k doubles of sign s, in units of
\* 2^E: exact, whatever the order of summation.
RECURSIVE SumSigned(_, _, _, _)
SumSigned(ws, s, E, k) ==
    IF k = 0 THEN <<>>
    ELSE BAdd(IF ws[k].s = s THEN BShift(ws[k].m, ws[k].e - E) ELSE <<>>,
              SumSigned(ws, s, E, k - 1), 0)

\* |sum(ws) - 1| in units of 2^E, E <= 0 the least exponent.
SumError(ws, E) ==
    BDist(SumSigned(ws, 1, E, Len(ws)),
          BAdd(SumSigned(ws, -1, E, Len(ws)), BShift(<<1>>, -E), 0))

\* The sum of the first k rationals.
RECURSIVE RSum(_, _)
RSum(qs, k) == IF k = 0 THEN Zero ELSE RAdd(qs[k], RSum(qs, k - 1))

\* x * 2^E <= 2^-53 * a, for the big natural x and the rational a >= 0.
WithinRounding(x, E, a) ==
    BLeq(BTimes(BShift(x, IF E + 53 > 0 THEN E + 53 ELSE 0), a.d),
         BShift(BTimes(<<1>>, a.n), IF E + 53 < 0 THEN -(E + 53) ELSE 0))

\* The variables of the filter, which the specifications of the transform
\* leave as they are.
Shelved ==
    /\ options = [calculate_gradients |-> FALSE]
    /\ flt = DTUnscentedKalmanFilter(options)
    /\ k0 = 0
    /\ work = DTKalmanFilterWork("x0", "Px0", k0)
    /\ calls = <<>>
    /\ pc = "none"
    /\ fN = 0
    /\ fy = <<>>
    /\ fk = 0
    /\ fx = <<>>
    /\ run = <<>>

FilterState == <<options, flt, work, calls, pc, fN, fy, fk, fx, run, k0>>

\* A transform object and a work record, as constructed; kappa takes the
\* halves between -2 MaxDim and 2 MaxDim.
InitUT ==
    /\ Shelved
    /\ \E ni \in 1..MaxDim, a \in -2 * MaxDim .. 2 * MaxDim, class \in {"cholesky", "svd"} :
          /\ RAdd(RInt(ni), Rat(a, 2)) # Zero
          /\ trans = UnscentedTransform(ni, Rat(a, 2), class)
    /\ twork = UnscentedTransformWorkRows
    /\ num = Unused
    /\ work2 = Unused
    /\ alone = Unused
    /\ mdl = Unused
    /\ problem = Unused

\* A call of sigma_points on the work record.
SigmaPoints ==
    /\ twork.out = ""
    /\ \E ok \in BOOLEAN : twork' = sigma_points_rows(trans, twork, ok)
    /\ UNCHANGED <<FilterState, trans, num, work2, alone, mdl, problem>>

SpecUT == InitUT /\ [][SigmaPoints]_vars

-----------------------------------------------------------------------------
(* The filter in numbers, for a model with one state and one output        *)
(* (nx = ny = 1): x, Px and every intermediate value are rationals,        *)
(* computed as predict and correct compute them.  The steps taken are      *)
(* those whose square roots are rational; kappa takes values for which     *)
(* the weights are exact as doubles.                                       *)

\* model.f(k, x): the identity or the square; model.Q(k, x): a constant,
\* positive semi-definite; model.h(k, x) = x and model.R() = 1.
ScalarModels == [f : {"x", "x^2"}, Q : {Zero, RInt(1)}]

apply(f, x) == IF f = "x^2" THEN RMul(x, x) ELSE x

IsSquare(n) == \E r \in 0..n : r * r = n
ISqrt(n) == CHOOSE r \in 0..n : r * r = n
HasRoot(q) == IsSquare(Abs(q.n)) /\ IsSquare(q.d)

\* CholeskyUnscentedTransform.sqrt raises LinAlgError unless Q is positive
\* definite (scipy.linalg.cholesky); SVDUnscentedTransform.sqrt does not raise.
scalar_sqrt_raises(self, Q) == self.sqrt = "cholesky" /\ ~RLess(Zero, Q)

\* sqrt(work, Q) of a 1 x 1 matrix: the Cholesky factor sqrt(Q), or
\* U * sqrt(s) with the singular value s = |Q|; the sign of U does not
\* reach o, Po or the cross covariance, the sigma points being symmetric.
scalar_sqrt(self, Q) == Rat(ISqrt(Abs(Q.n)), ISqrt(Q.d))

\* Lines 175-179, for the factor S.
scalar_i_dev(self, S) ==
    [r \in 1..self.nsigma |-> RMul(RInt(i_dev_rows(self)[r].sign), S)]

\* self.weights, as numbers.
scalar_weights(self) == [r \in 1..self.nsigma |-> weight(self.ni, self.kappa, r)]

\* np.einsum('k,ki', weights, a) and np.einsum('ki,kj,k', a, b, weights)
einsum_k_ki(ws, a) == RSum([r \in DOMAIN ws |-> RMul(ws[r], a[r])], Len(ws))
einsum_ki_kj_k(a, b, ws) ==
    RSum([r \in DOMAIN ws |-> RMul(ws[r], RMul(a[r], b[r]))], Len(ws))

\* Lines 208-209 and crosscov, for the mean o of line 207.
scalar_moments(ws, i_dev, o_sigma, o) ==
    [o |-> o,
     Po |-> einsum_ki_kj_k([r \in DOMAIN ws |-> RSub(o_sigma[r], o)],
                           [r \in DOMAIN ws |-> RSub(o_sigma[r], o)], ws),
     Pio |-> einsum_ki_kj_k(i_dev, [r \in DOMAIN ws |-> RSub(o_sigma[r], o)], ws)]

\* Lines 205-207, for the deviations i_dev.
scalar_outputs(ws, i_dev, o_sigma) ==
    scalar_moments(ws, i_dev, o_sigma, einsum_k_ki(ws, o_sigma))

\* transform(work, f) and crosscov(work) for work = Work(i, Pi).
scalar_transform(self, i, Pi, f) ==
    scalar_outputs(scalar_weights(self),
                   scalar_i_dev(self, scalar_sqrt(self, RMul(RAdd(RInt(self.ni), self.kappa), Pi))),
                   [r \in 1..self.nsigma |->
                      apply(f, RAdd(scalar_i_dev(self, scalar_sqrt(self,
                                 RMul(RAdd(RInt(self.ni), self.kappa), Pi)))[r], i))])

\* The context of a run in numbers: DTKalmanFilterWork(x, Px), and the
\* result of the last call.
ScalarWork(x, Px) == [x |-> x, Px |-> Px, k |-> 0, out |-> "", n |-> 0]

\* Lines 358-362 of predict, t being what the transform returned.
scalar_predict_update(w, t, Q) ==
    [w EXCEPT !.x = t.o, !.Px = RAdd(t.Po, Q), !.k = @ + 1, !.out = "ok", !.n = @ + 1]

\* predict(work)
scalar_predict(self, model, w) ==
    IF scalar_sqrt_raises(self, RMul(RAdd(RInt(self.ni), self.kappa), w.Px))
    THEN [w EXCEPT !.out = "LinAlgError", !.n = @ + 1]
    ELSE scalar_predict_update(w, scalar_transform(self, w.x, w.Px, model.f), model.Q)

\* Lines 449-466 of correct, for Py = Ph + R positive definite: PyI = 1/Py,
\* K = Pxh PyI, x + K e and Px - K K Py.
scalar_correct_update(w, t, Py, y) ==
    [w EXCEPT !.x = RAdd(w.x, RMul(RDiv(t.Pio, Py), RSub(y, t.o))),
              !.Px = RSub(w.Px, RMul(RMul(RDiv(t.Pio, Py), RDiv(t.Pio, Py)), Py)),
              !.out = "ok", !.n = @ + 1]

\* Line 451: DifferentiableCholesky.decompose raises LinAlgError unless Py
\* is positive definite.
scalar_correct_factor(w, t, y) ==
    IF ~RLess(Zero, RAdd(t.Po, RInt(1)))
    THEN [w EXCEPT !.out = "LinAlgError", !.n = @ + 1]
    ELSE scalar_correct_update(w, t, RAdd(t.Po, RInt(1)), y)

\* correct(work, y) for a measurement y that is not masked.
scalar_correct(self, w, y) ==
    IF scalar_sqrt_raises(self, RMul(RAdd(RInt(self.ni), self.kappa), w.Px))
    THEN [w EXCEPT !.out = "LinAlgError", !.n = @ + 1]
    ELSE scalar_correct_factor(w, scalar_transform(self, w.x, w.Px, "x"), y)

\* A filter for a scalar model (its transform and its model), and a context
\* with a covariance that is positive semi-definite.  kappa is -2, -1/2, 0 or 1,
\* that is ni + kappa = -1, 1/2, 1 or 2.
InitScalar ==
    /\ Shelved
    /\ \E kappa \in {RInt(-2), Rat(-1, 2), Zero, RInt(1)}, class \in {"cholesky", "svd"} :
          trans = UnscentedTransform(1, kappa, class)
    /\ twork = Unused
    /\ mdl \in ScalarModels
    /\ \E x \in 0..1, Px \in {0, 1, 2, 4} : num = ScalarWork(RInt(x), RInt(Px))
    /\ work2 = Unused
    /\ alone = Unused
    /\ problem = Unused

\* The steps taken: at most MaxSteps, with a square root that is rational.
CanStep ==
    /\ num.n < MaxSteps
    /\ HasRoot(RMul(RAdd(RInt(trans.ni), trans.kappa), num.Px))

ScalarPredict ==
    /\ CanStep
    /\ num' = scalar_predict(trans, mdl, num)
    /\ UNCHANGED <<FilterState, trans, twork, work2, alone, mdl, problem>>

ScalarCorrect ==
    /\ CanStep
    /\ \E y \in 0..1 : num' = scalar_correct(trans, num, RInt(y))
    /\ UNCHANGED <<FilterState, trans, twork, work2, alone, mdl, problem>>

NextScalar == ScalarPredict \/ ScalarCorrect

SpecScalar == InitScalar /\ [][NextScalar]_vars

-----------------------------------------------------------------------------
(* Two runs on one filter object, each with a context of its own: the      *)
(* calls of run 1 (context `work`, measurement fy[1]) and of run 2         *)
(* (context `work2`, measurement fy[2]) in any order.  flt is the filter   *)
(* object with all it keeps, the model and the transforms.  `alone` holds  *)
(* each run as it goes with a filter object of its own, which sees the     *)
(* calls of that run only.                                                 *)

\* A faulty likelihood_diff, to test C18: line 526 does not raise, and
\* lines 528-531 accumulate into self.dL_dq.
self_after_accumulating(op, self, r) ==
    IF op = "likelihood_diff" /\ r.out \in {"ok", "TypeError"} /\ any(r.work.active)
    THEN [sqrt |-> self.sqrt, kappa |-> self.kappa, raised |-> self.raised,
          dL_dq |-> "accumulated"]
    ELSE self

\* The filter object after a call that gave r.  predict, correct,
\* prediction_diff, correction_diff and update_likelihood assign to
\* attributes of work and to locals only, and the transforms keep no data of
\* a call (it is in the Work record created by the call); likelihood_diff
\* assigns self.dL_dq in lines 528-531, once line 526 has completed.
self_after(op, self, r) ==
    IF op = "likelihood_diff" /\ r.out = "ok" /\ any(r.work.active)
    THEN [sqrt |-> self.sqrt, kappa |-> self.kappa, raised |-> self.raised,
          dL_dq |-> "accumulated"]
    ELSE self

\* The options of the shared filter: either transform class, kappa left at
\* zero.
TwoOptions == {o \in Options : /\ DTUnscentedKalmanFilter(o).raised = ""
                               /\ "sqrt" \in DOMAIN o
                               /\ ~o.calculate_gradients
                               /\ o.kappa = 0}

\* A context as constructed, or with the derivative and likelihood values
\* assigned by the caller.
StartContexts ==
    {DTKalmanFilterWork("x0", "Px0", 0),
     Assigned(DTKalmanFilterWork("x0", "Px0", 0), UNION AssignGroups)}

InitTwo ==
    /\ options \in TwoOptions
    /\ flt = DTUnscentedKalmanFilter(options)
    /\ work \in StartContexts
    /\ work2 \in StartContexts
    /\ calls = <<>>
    /\ pc = "idle"
    /\ fN = 0
    /\ fy \in [1..2 -> Meas]
    /\ \A c \in 1..2 : all(getmaskarray(fy[c])) \/ ~any(getmaskarray(fy[c]))
    /\ fk = 0
    /\ fx = <<>>
    /\ run = <<>>
    /\ trans = Unused
    /\ twork = Unused
    /\ num = Unused
    /\ mdl = Unused
    /\ alone = [flt |-> <<flt, flt>>, work |-> <<work, work2>>]
    /\ k0 = 0
    /\ problem = Unused

\* The context of run c.
Ctx(c) == IF c = 1 THEN work ELSE work2

\* The effect of the call of op by run c: r is its result on the shared
\* filter, ra its result in the run that goes alone.  The measurement is
\* read, never written.
TwoCall(c, op, r, ra, y) ==
    /\ work' = IF c = 1 THEN r.work ELSE work
    /\ work2' = IF c = 2 THEN r.work ELSE work2
    /\ flt' = self_after(op, flt, r)
    /\ alone' = [flt |-> [alone.flt EXCEPT ![c] = self_after(op, @, ra)],
                 work |-> [alone.work EXCEPT ![c] = ra.work]]
    /\ calls' = Append(calls, [c |-> c, op |-> op, out |-> r.out])
    /\ UNCHANGED <<options, pc, fN, fy, fk, fx, run, trans, twork, num, mdl, k0, problem>>

TwoCorrect ==
    /\ Len(calls) < MaxTwo
    /\ \E c \in 1..2, fail \in Failures :
        TwoCall(c, "correct",
                correct(flt, Ctx(c), fy[c], fail # "sqrt", fail # "cholesky"),
                correct(alone.flt[c], alone.work[c], fy[c], fail # "sqrt", fail # "cholesky"),
                fy[c])

TwoPredict ==
    /\ Len(calls) < MaxTwo
    /\ \E c \in 1..2, fail \in Failures \ {"cholesky"} :
        TwoCall(c, "predict", predict(flt, Ctx(c), fail # "sqrt"),
                predict(alone.flt[c], alone.work[c], fail # "sqrt"), NoY)

TwoPredictionDiff ==
    /\ Len(calls) < MaxTwo
    /\ \E c \in 1..2 :
        TwoCall(c, "prediction_diff", prediction_diff(flt, Ctx(c)),
                prediction_diff(alone.flt[c], alone.work[c]), NoY)

TwoCorrectionDiff ==
    /\ Len(calls) < MaxTwo
    /\ \E c \in 1..2 :
        TwoCall(c, "correction_diff", correction_diff(flt, Ctx(c)),
                correction_diff(alone.flt[c], alone.work[c]), NoY)

TwoUpdateLikelihood ==
    /\ Len(calls) < MaxTwo
    /\ \E c \in 1..2 :
        TwoCall(c, "update_likelihood", update_likelihood(flt, Ctx(c)),
                update_likelihood(alone.flt[c], alone.work[c]), NoY)

TwoLikelihoodDiff ==
    /\ Len(calls) < MaxTwo
    /\ \E c \in 1..2 :
        TwoCall(c, "likelihood_diff", likelihood_diff(flt, Ctx(c)),
                likelihood_diff(alone.flt[c], alone.work[c]), NoY)

NextTwo ==
    \/ TwoCorrect
    \/ TwoPredict
    \/ TwoPredictionDiff
    \/ TwoCorrectionDiff
    \/ TwoUpdateLikelihood
    \/ TwoLikelihoodDiff

SpecTwo == InitTwo /\ [][NextTwo]_vars

-----------------------------------------------------------------------------
(* Properties. *)

Last(s) == s[Len(s)]

\* This step is a call of op: the call appended to the history.
Called(op) == Len(calls') = Len(calls) + 1 /\ Last(calls').op = op

\* C1: filter(work, y) over N measurements makes N correct calls and N - 1
\* predict calls in strict alternation that starts and ends with correct, the
\* i-th correct being given row i of y; predict never follows the last
\* correct, and for N = 0 no call is made.
C1_FilterAlternates ==
    /\ \A i \in DOMAIN run :
        /\ run[i].op = IF i % 2 = 1 THEN "correct" ELSE "predict"
        /\ i % 2 = 1 => run[i].y = fy[(i + 1) \div 2]
    /\ pc = "done" => /\ Len(run) = IF fN = 0 THEN 0 ELSE 2 * fN - 1
                      /\ Len(fx) = fN
    /\ pc = "predict" => Len(run) % 2 = 1 /\ Len(run) < 2 * fN - 1

C1_Witness == pc = "done" /\ fN >= 2 /\ Len(run) = 2 * fN - 1

C1_WitnessEmpty == pc = "done" /\ fN = 0 /\ run = <<>>

\* C2: correct(work, y) with every entry of y masked returns the current
\* (work.x, work.Px) and changes nothing on the context but the active mask:
\* x, Px, k and L keep their values and no innovation, gain or factor is
\* computed or stored.
C2_AllMaskedCorrectIsIdentity ==
    [][Called("correct") /\ all(getmaskarray(Last(calls').y)) =>
         /\ Last(calls').out = "ok"
         /\ Last(calls').val = <<work.x, work.Px>>
         /\ work' = [work EXCEPT !.has = @ \cup {"active"},
                                 !.active = [i \in 1..NY |-> FALSE]]]_vars

C2_Witness ==
    /\ calls # <<>>
    /\ Last(calls).op = "correct"
    /\ all(getmaskarray(Last(calls).y))
    /\ Last(calls).out = "ok"
    /\ {"K", "L"} \subseteq work.has

\* The most recent correct call was given a measurement with every entry
\* missing.
LastCorrectAllMasked ==
    \E i \in DOMAIN calls :
        /\ calls[i].op = "correct"
        /\ all(getmaskarray(calls[i].y))
        /\ \A j \in DOMAIN calls : j > i => calls[j].op # "correct"

\* C3: after a correct call in which every measurement entry was missing,
\* each of correction_diff, update_likelihood and likelihood_diff returns
\* without changing the context (x, Px, k, dx_dq, dPx_dq, L, dL_dq and the
\* rest) or the filter, whatever working data earlier steps left.
C3_DiffsAreNoOpsAfterAllMasked ==
    [][/\ LastCorrectAllMasked
       /\ \/ Called("correction_diff")
          \/ Called("update_likelihood")
          \/ Called("likelihood_diff")
       => /\ Last(calls').out = "ok"
          /\ work' = work
          /\ flt' = flt]_vars

C3_Witness ==
    /\ Len(calls) >= 3
    /\ Last(calls).op = "update_likelihood"
    /\ Last(calls).out = "ok"
    /\ calls[Len(calls) - 1].op = "correct"
    /\ all(getmaskarray(calls[Len(calls) - 1].y))
    /\ {"PyC", "e", "K", "corr_ut", "py_chol", "L"} \subseteq work.has

\* The expressions of the unscented transform of the function named fn,
\* bound to time index k, over the sigma points of the context's (x, Px).
C4_Sigma ==
    "add(dev(" \o ToString(2 * NX + (IF flt.kappa # 0 THEN 1 ELSE 0)) \o ","
    \o flt.sqrt \o "(mul(" \o ToString(NX + flt.kappa) \o ",Px))),x)"

C4_Images == "f(" \o ToString(work.k) \o "," \o C4_Sigma \o ")"

C4_Mean == "wsum(" \o C4_Images \o ")"

C4_Dev == "sub(" \o C4_Images \o "," \o C4_Mean \o ")"

C4_Cov == "wouter(" \o C4_Dev \o "," \o C4_Dev \o ")"

\* C4: a predict call that returns increments work.k by 1, stores the
\* pre-call x and Px as prev_x and prev_Px, sets x to the transformed mean
\* and Px to the transformed covariance plus Q, with f and Q evaluated at
\* the pre-call k and Q at the pre-call x, and returns the new (x, Px).
C4_PredictEffect ==
    [][Called("predict") /\ Last(calls').out = "ok" =>
         /\ work'.k = work.k + 1
         /\ {"prev_x", "prev_Px"} \subseteq work'.has
         /\ work'.prev_x = work.x
         /\ work'.prev_Px = work.Px
         /\ work'.x = V(C4_Mean, work.ver)
         /\ work'.Px = V("add(" \o C4_Cov \o ",Q(" \o ToString(work.k) \o ",x))",
                         work.ver)
         /\ Last(calls').val = <<work'.x, work'.Px>>]_vars

C4_Witness ==
    /\ calls # <<>>
    /\ Last(calls).op = "predict"
    /\ Last(calls).out = "ok"
    /\ work.k = 2
    /\ work.prev_x # V("x0", "")

\* Every call made so far returned.
AllReturned == \A i \in DOMAIN calls : calls[i].out = "ok"

\* The most recent predict or correct call made on the context was predict.
LastValueCallIsPredict ==
    \E i \in DOMAIN calls :
        /\ calls[i].op = "predict"
        /\ \A j \in DOMAIN calls : j > i => calls[j].op \notin {"predict", "correct"}

\* An earlier correct, given a measurement with an active entry, left its
\* working set on the context.
ActiveCorrectMade ==
    \E i \in DOMAIN calls :
        calls[i].op = "correct" /\ ~all(getmaskarray(calls[i].y))

\* C5: prediction_diff called when the most recent value call on the context
\* was not predict (no predict yet, or a correct after the last predict)
\* fails with an error and does not modify dx_dq or dPx_dq.
C5_PredictionDiffNeedsPredict ==
    [][Called("prediction_diff") /\ AllReturned /\ ~LastValueCallIsPredict =>
         /\ Last(calls').out # "ok"
         /\ work'.dx_dq = work.dx_dq
         /\ work'.dPx_dq = work.dPx_dq]_vars

\* C6: correction_diff called when the most recent value call on the context
\* was predict is rejected: it raises and leaves the context as it was,
\* instead of computing from the working set of an earlier correct.
C6_CorrectionDiffRejectedAfterPredict ==
    [][/\ Called("correction_diff")
       /\ AllReturned
       /\ LastValueCallIsPredict
       /\ ActiveCorrectMade
       =>
         /\ Last(calls').out # "ok"
         /\ work' = work]_vars

\* C7: in a filter run for which derivatives were requested, every correct
\* is followed by correction_diff and every predict by prediction_diff,
\* before the next value call.
C7_FilterCallsDiffs ==
    pc = "done" /\ options.calculate_gradients =>
        \A i \in DOMAIN run :
            /\ run[i].op = "correct" =>
                 i < Len(run) /\ run[i + 1].op = "correction_diff"
            /\ run[i].op = "predict" =>
                 i < Len(run) /\ run[i + 1].op = "prediction_diff"

\* The call before this step was a correct that returned, given a
\* measurement with an active entry.
AfterActiveCorrect(cs) ==
    /\ cs # <<>>
    /\ Last(cs).op = "correct"
    /\ Last(cs).out = "ok"
    /\ ~all(getmaskarray(Last(cs).y))

\* C8: correction_diff called right after a correct with an active entry, on
\* a context that holds dx_dq and dPx_dq, returns and accumulates into dx_dq
\* and dPx_dq.
C8_CorrectionDiffCompletes ==
    [][/\ Called("correction_diff")
       /\ AfterActiveCorrect(calls)
       /\ {"dx_dq", "dPx_dq"} \subseteq work.has
       => /\ Last(calls').out = "ok"
          /\ work'.dx_dq # work.dx_dq
          /\ work'.dPx_dq # work.dPx_dq]_vars

\* C9: after a correct call with an active entry that returned, the context
\* holds e, K, Py, PyI, the factor PyC and the active mask.
C9_CorrectPersists ==
    AfterActiveCorrect(calls) =>
        {"e", "K", "Py", "PyI", "PyC", "active"} \subseteq work.has

\* C10: likelihood_diff called after a correct with an active entry and its
\* correction_diff, on a context that carries L, dL_dq and the derivatives,
\* returns having accumulated into the dL_dq of the context, and leaves the
\* filter object as it was.
C10_LikelihoodDiffAccumulates ==
    [][/\ Called("likelihood_diff")
       /\ Len(calls) >= 2
       /\ Last(calls).op = "correction_diff"
       /\ AfterActiveCorrect(SubSeq(calls, 1, Len(calls) - 1))
       /\ {"L", "dL_dq", "dx_dq", "dPx_dq"} \subseteq work.has
       => /\ Last(calls').out = "ok"
          /\ work'.dL_dq # work.dL_dq
          /\ flt' = flt]_vars

\* The caller has assigned nothing to the context: it holds what the Work
\* constructor and the operations called on it have stored.
AsConstructed == work.has \cap UNION AssignGroups = {}

\* C11: on a context made by the Work constructor from (x0, Px0), with
\* nothing assigned to it by the caller, update_likelihood called right after
\* a correct with an active entry returns and leaves x, Px and k as they were
\* (it changes L and its diagonal record PyCD only).
C11_ConstructedContextCarriesL ==
    [][/\ Called("update_likelihood")
       /\ AfterActiveCorrect(calls)
       /\ AsConstructed
       => /\ Last(calls').out = "ok"
          /\ "L" \in work'.has
          /\ work'.x = work.x
          /\ work'.Px = work.Px
          /\ work'.k = work.k]_vars

\* C12: a predict or correct call in which a factorization fails (the square
\* root of the transform, or the Cholesky factor of the innovation
\* covariance) raises and leaves work.x, work.Px and work.k as they were
\* before the call; inside filter() the error ends the run, and no call is
\* made after it.
C12_FactorizationFailureIsFatal ==
    /\ [][/\ Called("predict") \/ Called("correct")
          /\ Last(calls').out = "LinAlgError"
          => /\ work'.x = work.x
             /\ work'.Px = work.Px
             /\ work'.k = work.k
             /\ pc # "idle" => pc' = "raised" /\ fx' = fx]_vars
    /\ [][pc = "raised" => calls' = calls /\ run' = run /\ work' = work]_vars
    /\ [](\A i \in DOMAIN run : run[i].out # "ok" => i = Len(run) /\ pc = "raised")

C12_Witness ==
    /\ pc = "raised"
    /\ Len(run) = 3
    /\ Last(run).op = "correct"
    /\ Last(run).out = "LinAlgError"
    /\ work.k = 1
    /\ "K" \in work.has

\* C13: a configuration with ni + kappa = 0, or with a sqrt option that is
\* neither 'cholesky' nor 'svd', makes the constructor raise: no filter
\* object exists, and no predict, correct or other call is ever made on it.
C13_InvalidConfigurationRejected ==
    \/ /\ "sqrt" \in DOMAIN options
       /\ options.sqrt \notin {"cholesky", "svd"}
    \/ /\ "kappa" \in DOMAIN options
       /\ NX + options.kappa = 0
    => /\ flt.raised \in {"ValueError", "AssertionError"}
       /\ pc = "none"
       /\ calls = <<>>
       /\ run = <<>>
       /\ work = DTKalmanFilterWork("x0", "Px0", k0)

C13_Witness ==
    /\ "sqrt" \in DOMAIN options
    /\ options.sqrt = "qr"
    /\ options.kappa = 1
    /\ flt.raised = "ValueError"
    /\ pc = "none"

C13_WitnessKappa ==
    /\ "sqrt" \in DOMAIN options
    /\ options.sqrt = "svd"
    /\ options.kappa = -NX
    /\ flt.raised = "AssertionError"
    /\ pc = "none"

\* Measurement vectors with the same mask and the same values in the entries
\* that are not masked.
SameActive(y1, y2) ==
    /\ y1.mask = y2.mask
    /\ \A i \in DOMAIN y1.mask : ~y1.mask[i] => y1.data[i] = y2.data[i]

\* C14: what correct(work, y) does is the same for every measurement vector
\* with the mask of y and the values of y in the active entries: the same
\* return value (x, Px) and the same context (e, K, the factor and the rest),
\* under the same outcome of the factorizations; and the measurement that
\* enters the innovation has as many components as y has active entries.
C14_MaskedValuesIgnored ==
    [][Called("correct") =>
         /\ Len(compressedFrom(Last(calls').y.data, Last(calls').y.mask, 1))
              = Cardinality({i \in 1..NY : ~Last(calls').y.mask[i]})
         /\ \A y2 \in MeasWide :
              SameActive(Last(calls').y, y2) =>
                \E fail \in Failures :
                    /\ correct(flt, work, y2, fail # "sqrt", fail # "cholesky").work
                         = work'
                    /\ correct(flt, work, y2, fail # "sqrt", fail # "cholesky").out
                         = Last(calls').out
                    /\ correct(flt, work, y2, fail # "sqrt", fail # "cholesky").val
                         = Last(calls').val]_vars

C14_Witness ==
    /\ Len(calls) = 2
    /\ calls[1].op = "predict"
    /\ calls[2].op = "correct"
    /\ calls[2].out = "ok"
    /\ calls[2].y.mask = <<TRUE, FALSE>>
    /\ calls[2].y.data = <<0, 1>>
    /\ "K" \in work.has

\* C15 as stated: the weights a transform object stores sum to exactly 1.
\* Violated: the stored weights are doubles, and for instance ten times the
\* double nearest to 0.1 is not 1.
C15_WeightsSumToExactlyOne ==
    trans # Unused => SumError(trans.weights, MinExp(trans.weights)) = <<>>

\* C15, amended: each of the 2 ni paired points has the double nearest to
\* 0.5/(ni + kappa) as weight and, when kappa != 0, the center point (the
\* last) has the double nearest to kappa/(ni + kappa); the quotients
\* themselves sum to exactly 1, and the stored doubles sum to 1 to within
\* the rounding of the quotients, 2^-53 (ni + |kappa|) / |ni + kappa|.
C15_WeightsSumToOneRounded ==
    trans # Unused =>
        /\ Len(trans.weights) = 2 * trans.ni + (IF trans.kappa = Zero THEN 0 ELSE 1)
        /\ \A k \in 1..(2 * trans.ni) :
              trans.weights[k] = double(Rat(trans.kappa.d, 2 * (trans.ni * trans.kappa.d + trans.kappa.n)))
        /\ trans.kappa # Zero =>
              trans.weights[2 * trans.ni + 1]
                  = double(Rat(trans.kappa.n, trans.ni * trans.kappa.d + trans.kappa.n))
        /\ RSum([k \in DOMAIN trans.weights |-> weight(trans.ni, trans.kappa, k)],
                Len(trans.weights)) = RInt(1)
        /\ WithinRounding(SumError(trans.weights, MinExp(trans.weights)),
                          MinExp(trans.weights),
                          RDiv(RAdd(RInt(trans.ni), RAbs(trans.kappa)),
                               RAbs(RAdd(RInt(trans.ni), trans.kappa))))

\* A transform with a center point whose stored weights do not sum to 1
\* exactly.
C15_Witness ==
    /\ trans # Unused
    /\ trans.kappa # Zero
    /\ trans.ni >= 2
    /\ SumError(trans.weights, MinExp(trans.weights)) # <<>>

\* C16: sigma_points leaves 2 ni + (1 if kappa != 0) points; points j and
\* ni + j are the mean plus and minus row j of the square root; the point of
\* zero deviation is there only when kappa != 0, and is the last.
C16_SigmaPointsLayout ==
    (trans # Unused /\ twork.out = "ok") =>
        /\ Len(twork.i_sigma) = 2 * trans.ni + (IF trans.kappa = Zero THEN 0 ELSE 1)
        /\ Len(twork.i_dev) = Len(twork.i_sigma)
        /\ \A r \in DOMAIN twork.i_sigma :
              twork.i_sigma[r] = [dev |-> twork.i_dev[r], plus |-> "i"]
        /\ \A j \in 1..trans.ni :
              /\ twork.i_dev[j] = Dev(1, j)
              /\ twork.i_dev[trans.ni + j] = Dev(-1, j)
        /\ \A r \in DOMAIN twork.i_dev :
              twork.i_dev[r].sign = 0 <=> (trans.kappa # Zero /\ r = Len(twork.i_dev))
        /\ trans.kappa # Zero => twork.i_dev[Len(twork.i_dev)].sign = 0

\* sigma_points has run on a transform with a center point.
C16_Witness ==
    /\ trans # Unused
    /\ twork.out = "ok"
    /\ trans.kappa # Zero
    /\ trans.ni >= 2

\* sigma_points has run on a transform without a center point.
C16_WitnessNoCenter ==
    /\ trans # Unused
    /\ twork.out = "ok"
    /\ trans.kappa = Zero
    /\ trans.ni >= 2

\* C17 as stated, for a scalar model (every 1 x 1 matrix is symmetric, and
\* positive semi-definite when it is not negative): from a covariance Px >= 0,
\* with Q >= 0 and R = 1, Px is positive semi-definite after every predict
\* and every correct.  Violated: a negative weight (kappa < 0), or
\* ni + kappa < 0 with the SVD square root, gives a negative Px.
C17_CovarianceStaysPSD ==
    num # Unused => ~RLess(num.Px, Zero)

PredictionTransformDiff ==
    transform_diff(flt, Load(work, "pred_ut"),
                   <<"df_dq", ToString(work.k - 1)>>, <<"df_dx", ToString(work.k - 1)>>,
                   Rd(work, "dx_dq"), Rd(work, "dPx_dq"))

\* Lines 378-380 of prediction_diff: DQ_Dq = dQ_dq + dx_dq_old . dQ_dx.
PredictionDQ_Dq ==
    New("add", <<New("dQ_dq", <<Lit(ToString(work.k - 1)), Rd(work, "prev_x")>>),
                 New("dot", <<Rd(work, "dx_dq"),
                              New("dQ_dx", <<Lit(ToString(work.k - 1)), Rd(work, "prev_x")>>)>>)>>)

\* The step is a call of prediction_diff that comes right after a predict
\* that completed, on a context that holds dx_dq and dPx_dq.
PredictionDiffAfterPredict ==
    /\ Called("prediction_diff")
    /\ calls # <<>>
    /\ Last(calls).op = "predict"
    /\ Last(calls).out = "ok"
    /\ {"dx_dq", "dPx_dq"} \subseteq work.has

\* C19 as stated: with either transform class, transform_diff called after
\* transform on the same work record (as prediction_diff calls it after
\* predict) completes and returns the derivatives of the mean and of the
\* covariance.  Violated: the SVD transform has no sqrt_diff.
C19_TransformDiffBothVariants ==
    [][PredictionDiffAfterPredict =>
          /\ PredictionTransformDiff.out = "ok"
          /\ PredictionTransformDiff.do_dq # NoRef
          /\ PredictionTransformDiff.dPo_dq # NoRef
          /\ Last(calls').out = "ok"]_vars

\* C20 as stated: prediction_diff right after predict leaves in dx_dq the
\* mean derivative that transform_diff returned, and in dPx_dq the covariance
\* derivative that transform_diff returned plus dQ_dq + dx_dq_old . dQ_dx.
\* Violated: lines 383-384 add them to the old dx_dq and dPx_dq.
C20_PredictionDiffReplaces ==
    [][(PredictionDiffAfterPredict /\ Last(calls').out = "ok") =>
          /\ work'.dx_dq = PredictionTransformDiff.do_dq.v
          /\ work'.dPx_dq = New("add", <<PredictionTransformDiff.dPo_dq, PredictionDQ_Dq>>).v]_vars

\* The number of predict calls that have completed on the context, and the
\* number of correct calls the current filter() has made.
C21_Predicted ==
    Cardinality({i \in DOMAIN calls : calls[i].op = "predict" /\ calls[i].out = "ok"})

C21_Corrected == Cardinality({i \in DOMAIN run : run[i].op = "correct"})

\* C21: work.k is the time index the context was constructed with plus the
\* number of predict calls that have completed on it; a step changes k only
\* when it is a predict that completes, and then by one; correct and the
\* derivative and likelihood operations leave k as it is.  Hence the j-th
\* correct of filter() (j from 0) finds k = k0 + j and returns what correct
\* computes at that time index.
C21_KCountsPredicts ==
    /\ [](work.k = k0 + C21_Predicted)
    /\ [][work'.k = work.k + (IF Called("predict") /\ Last(calls').out = "ok"
                               THEN 1 ELSE 0)]_vars
    /\ [][(pc = "correct" /\ Called("correct") /\ Last(calls').out = "ok") =>
            /\ work.k = k0 + C21_Corrected
            /\ Last(calls').val
                 = correct(flt, [work EXCEPT !.k = k0 + C21_Corrected],
                           Last(calls').y, TRUE, TRUE).val]_vars

\* filter() has returned from three measurements, the last of them not
\* masked, on a context constructed with k = 1; other operations were not
\* called.
C21_Witness ==
    /\ pc = "done"
    /\ fN = 3
    /\ k0 = 1
    /\ work.k = 3
    /\ ~all(getmaskarray(fy[3]))

\* The sigma points predict computes from the context as it is (line 355).
C22_Sigma ==
    sigma_points(flt, UnscentedTransformWork(Rd(work, "x"), Rd(work, "Px")), TRUE).ut.f.i_sigma

\* C22: a predict that completes evaluates f and Q at the time index k and Q
\* at the mean x it found, and leaves k + 1, x as prev_x and its sigma
\* points in pred_ut; the prediction_diff that follows it evaluates df_dq
\* and df_dx at the index work.k - 1 on the sigma points of work.pred_ut,
\* and dQ_dq and dQ_dx at work.k - 1 and work.prev_x: the index, the mean
\* and the sigma points of that predict.
C22_PredictionDiffAligned ==
    /\ [][(Called("predict") /\ Last(calls').out = "ok") =>
            /\ work'.k - 1 = work.k
            /\ work'.prev_x = work.x
            /\ "pred_ut" \in work'.has
            /\ work'.pred_ut.f.i_sigma = C22_Sigma.v
            /\ work'.x = New("wsum", <<Call(<<"f", ToString(work.k)>>, C22_Sigma)>>).v
            /\ work'.Px
                 = New("add", <<transform(flt, UnscentedTransformWork(Rd(work, "x"), Rd(work, "Px")),
                                         <<"f", ToString(work.k)>>, TRUE).Po,
                               New("Q", <<Lit(ToString(work.k)), Rd(work, "x")>>)>>).v]_vars
    /\ [][(PredictionDiffAfterPredict /\ Last(calls').out = "ok") =>
            /\ work'.dx_dq
                 = New("add", <<Rd(work, "dx_dq"), PredictionTransformDiff.do_dq>>).v
            /\ work'.dPx_dq
                 = New("add", <<Rd(work, "dPx_dq"),
                               New("add", <<PredictionTransformDiff.dPo_dq,
                                            PredictionDQ_Dq>>)>>).v
            /\ work'.pred_ut.f.i_sigma = work.pred_ut.f.i_sigma]_vars

\* prediction_diff has completed right after a predict that completed, on a
\* context constructed with k = 1.
C22_Witness ==
    /\ Len(calls) = 2
    /\ calls[1].op = "predict" /\ calls[1].out = "ok"
    /\ calls[2].op = "prediction_diff" /\ calls[2].out = "ok"
    /\ k0 = 1
    /\ work.k = 2

\* C23: the trajectories filter() fills have one entry for each correct
\* call made, entry j being the (x, Px) that the j-th correct returned; when
\* filter() returns they have N entries, the context's (x, Px) is the last
\* of them, and the entry of a measurement with every entry masked is the
\* (x, Px) that the predict before it produced.
C23_FilterTrajectories ==
    /\ pc \in {"correct", "predict", "done"} =>
          \A j \in DOMAIN fx :
              /\ run[2 * j - 1].op = "correct"
              /\ fx[j] = run[2 * j - 1].val
              /\ (j > 1 /\ all(getmaskarray(fy[j]))) =>
                    /\ run[2 * j - 2].op = "predict"
                    /\ fx[j] = run[2 * j - 2].val
    /\ pc = "done" =>
          /\ Len(fx) = fN
          /\ fN > 0 => <<work.x, work.Px>> = fx[fN]

\* filter() has returned from three measurements, the second with every
\* entry masked, the third with none.
C23_Witness ==
    /\ pc = "done"
    /\ fN = 3
    /\ all(getmaskarray(fy[2]))
    /\ ~any(getmaskarray(fy[3]))
    /\ fx[2] # fx[1]
    /\ fx[3] # fx[2]

(***************************************************************************)
(* Optimization problem (ceacoest/optim.py): the decision vector and the   *)
(* components registered in it.  The OrderedDict decision_components is a  *)
(* sequence of (name, value) pairs in insertion order.                     *)
(***************************************************************************)

\* np.prod(shape, dtype=int): the product of the entries, 1 for ().
RECURSIVE prod(_)
prod(shape) == IF shape = <<>> THEN 1 ELSE Head(shape) * prod(Tail(shape))

\* DecisionComponent(shape, offset, broadcast_dims), broadcast_dims >= 0: n
\* is where the slices shape[broadcast_dims:] and shape[:broadcast_dims]
\* cut.  expansion_inds is a column: one row of one entry for each element
\* of the expansion shape.
DecisionComponent(shape, offset, broadcast_dims) ==
    LET size == prod(shape)
        n == IF broadcast_dims >= Len(shape) THEN Len(shape) ELSE broadcast_dims
        base_shape == SubSeq(shape, n + 1, Len(shape))
        expansion_shape == SubSeq(shape, 1, n)
        base_size == prod(base_shape)
        expansion_size == prod(expansion_shape)
    IN  [shape |-> shape,
         offset |-> offset,
         size |-> size,
         slice |-> [start |-> offset, stop |-> offset + size],
         expansion_inds |-> [i \in 1..expansion_size |->
                                <<(i - 1) * base_size + offset>>],
         base_shape |-> base_shape]

\* d[name] = value on an OrderedDict: the value of a name that is present is
\* replaced where it stands, a new name goes to the end.
setitem(d, name, value) ==
    IF \E i \in DOMAIN d : d[i].name = name
    THEN [i \in DOMAIN d |->
            IF d[i].name = name THEN [name |-> name, value |-> value] ELSE d[i]]
    ELSE Append(d, [name |-> name, value |-> value])

\* Problem().
Problem == [decision_components |-> <<>>, nd |-> 0]

\* Problem.register_decision_variable(name, shape, broadcast_dims).
register_decision_variable(self, name, shape, broadcast_dims) ==
    LET component == DecisionComponent(shape, self.nd, broadcast_dims)
    IN  [decision_components |->
             setitem(self.decision_components, name, component),
         nd |-> self.nd + component.size]

\* A problem as constructed; the filter is left aside.
InitProblem ==
    /\ Shelved
    /\ trans = Unused
    /\ twork = Unused
    /\ num = Unused
    /\ work2 = Unused
    /\ alone = Unused
    /\ mdl = Unused
    /\ problem = Problem

\* A call of register_decision_variable, with the shape of a scalar, of a
\* vector (one of them with no element) or of a matrix.
Register ==
    /\ problem.nd < MaxNd
    /\ \E name \in {"x", "u", "p"}, broadcast_dims \in 0..1,
          shape \in {<<>>, <<0>>, <<1>>, <<2>>, <<2, 1>>, <<1, 2>>} :
          problem' = register_decision_variable(problem, name, shape,
                                                broadcast_dims)
    /\ UNCHANGED <<FilterState, trans, twork, num, work2, alone, mdl>>

SpecProblem == InitProblem /\ [][Register]_vars

\* The elements of the decision vector in the slice of a component, and the
\* sum of the sizes of the components from the i-th on.
C24_Elements(c) == c.slice.start .. c.slice.stop - 1

RECURSIVE C24_Sizes(_, _)
C24_Sizes(d, i) ==
    IF i > Len(d) THEN 0 ELSE d[i].value.size + C24_Sizes(d, i + 1)

\* C24: after any sequence of register_decision_variable calls, one that
\* registers a registered name again included, the slices of the components
\* in decision_components are pairwise disjoint and together cover exactly
\* [0, nd), and nd is the sum of the sizes of the registered components.
C24_SlicesPartition ==
    LET d == problem.decision_components
    IN  /\ \A i, j \in DOMAIN d :
              i # j => C24_Elements(d[i].value) \cap C24_Elements(d[j].value) = {}
        /\ UNION {C24_Elements(d[i].value) : i \in DOMAIN d} = 0 .. problem.nd - 1
        /\ problem.nd = C24_Sizes(d, 1)

====
